---- MODULE Spec2Model ----
(***************************************************************************)
(* State-machine model of the bevy_mouse_tracking_plugin crate:            *)
(*   - MousePosPlugin  (src/src/mouse_pos.rs): per-camera MousePos and     *)
(*     MousePosWorld components, the MainCamera marker, the cached         *)
(*     MainCameraStore and the MousePos / MousePosWorld resources;         *)
(*   - MouseMotionPlugin (src/src/mouse_motion.rs): the MouseMotion        *)
(*     resource.                                                           *)
(* Vec2 / Vec3 are integer tuples; Option<T> is the empty sequence (None)  *)
(* or a one-element sequence (Some).                                       *)
(***************************************************************************)
EXTENDS Integers, Sequences, FiniteSets, TLC

VARIABLES
    \* ---- MousePosPlugin: the ECS world ----
    phase,        \* "app" | "first" | "aborted" : where the frame loop stands
    ran,          \* systems of CoreStage::First that already ran this frame
    alive,        \* [Entities -> BOOLEAN]   entity not yet despawned
    target,       \* [Entities -> RenderTarget]  Camera.target
    excluded,     \* [Entities -> BOOLEAN]   carries ExcludeMouseTracking
    pos,          \* [Entities -> Option(Vec2)]  MousePos component
    posChOrtho,   \* [Entities -> BOOLEAN]   MousePos changed since update_pos_ortho last ran
    posChRes,     \* [Entities -> BOOLEAN]   MousePos changed since update_resources last ran
    world,        \* [Entities -> Option(Vec3)]  MousePosWorld component
    worldChRes,   \* [Entities -> BOOLEAN]   MousePosWorld changed since update_resources last ran
    xf,           \* [Entities -> Option(GlobalTransform)]
    proj,         \* [Entities -> Option(OrthographicProjection)]
    marker,       \* [Entities -> BOOLEAN]   carries MainCamera
    addedMain,    \* [Entities -> BOOLEAN]   MainCamera added since update_main last ran
    removed,      \* Seq(Entities)           RemovedComponents<MainCamera>
    movement,     \* Seq(CursorMoved)        events update_pos has not read yet
    cursor,       \* [Windows -> Option(Vec2)]   Window::cursor_position()
    store,        \* Option(Entity)          MainCameraStore
    mainDefinedLastFrame, \* BOOLEAN         Local<bool> of update_resources
    resPos,       \* Vec2                    resource MousePos
    resWorld,     \* Vec3                    resource MousePosWorld
    \* ---- history of the current frame (observation only) ----
    posBefore,    \* pos as update_pos found it
    readEvents,   \* the events update_pos read
    hadMainPrev,  \* store was Some at the end of the previous frame
    hadMainPrev2, \* store was Some at the end of the frame before that
    resWrite,     \* what update_resources wrote: "none" | "reset" | "copy"
    \* ---- MouseMotionPlugin ----
    motOld,       \* Seq(Vec2)  Events<BevyMouseMotion>: older buffer
    motNew,       \* Seq(Vec2)  Events<BevyMouseMotion>: newer buffer
    motRead,      \* Nat        events of motOld \o motNew the EventReader has read
    motRes,       \* Vec2       resource MouseMotion.delta
    motRan,       \* steps of the frame that already ran
    motReported,  \* Seq(Vec2)  deltas the host reported since the previous frame
    \* ---- compute_world_pos_ortho on free inputs ----
    oScreen, oXf, oProj, oOut

varsTrack == <<phase, ran, alive, target, excluded, pos, posChOrtho, posChRes,
               world, worldChRes, xf, proj, marker, addedMain, removed, movement,
               cursor, store, mainDefinedLastFrame, resPos, resWorld,
               posBefore, readEvents, hadMainPrev, hadMainPrev2, resWrite>>
varsMotion == <<motOld, motNew, motRead, motRes, motRan, motReported>>
varsOrtho == <<oScreen, oXf, oProj, oOut>>
vars == <<varsTrack, varsMotion, varsOrtho>>

----------------------------------------------------------------------------
\* Option<T>
None == <<>>
Some(v) == <<v>>
IsSome(o) == o # <<>>
Unwrap(o) == o[1]

\* glam vectors
Vec2Zero == <<0, 0>>
Vec3Zero == <<0, 0, 0>>
Vec2Add(a, b) == <<a[1] + b[1], a[2] + b[2]>>
Vec2Scale(a, s) == <<a[1] * s, a[2] * s>>
Vec3Add(a, b) == <<a[1] + b[1], a[2] + b[2], a[3] + b[3]>>
Vec3Scale(a, s) == <<a[1] * s, a[2] * s, a[3] * s>>
Extend(a, z) == <<a[1], a[2], z>>

\* GlobalTransform: an affine map, three matrix columns and a translation.
Affine(xa, ya, za, t) == [x_axis |-> xa, y_axis |-> ya, z_axis |-> za, translation |-> t]
Identity == Affine(<<1, 0, 0>>, <<0, 1, 0>>, <<0, 0, 1>>, Vec3Zero)
\* GlobalTransform::mul_vec3: matrix * v + translation
mul_vec3(t, v) ==
    Vec3Add(Vec3Add(Vec3Add(Vec3Scale(t.x_axis, v[1]), Vec3Scale(t.y_axis, v[2])),
                    Vec3Scale(t.z_axis, v[3])),
            t.translation)

\* OrthographicProjection: the fields compute_world_pos_ortho reads.
Ortho(l, b, s) == [left |-> l, bottom |-> b, scale |-> s]

\* The camera transform applied first and the projection scale last.
compute_world_pos_ortho_scale_last(screen_pos, transform, p) ==
    Vec3Scale(mul_vec3(transform, Extend(Vec2Add(screen_pos, <<p.left, p.bottom>>), 0)),
              p.scale)

\* fn compute_world_pos_ortho(screen_pos, transform, proj) -> Vec3
compute_world_pos_ortho(screen_pos, transform, p) ==
    LET offset == <<p.left, p.bottom>>
    IN  mul_vec3(transform, Extend(Vec2Scale(Vec2Add(screen_pos, offset), p.scale), 0))

----------------------------------------------------------------------------
\* The world the plugin runs in.
EntitySeq == <<"e1", "e2">>
Entities == {EntitySeq[i] : i \in 1..Len(EntitySeq)}
Windows == {"w1", "w2"}
\* Cursor coordinates a CursorMoved notification can carry.
Positions == {<<1, 2>>, <<3, 1>>}

\* RenderTarget
Window(id) == <<"window", id>>
Image == <<"image", "offscreen">>

\* Number of CursorMoved notifications the host delivers between two frames.
MaxEvents == 2
\* Number of MainCamera removals recorded before update_main reads them.
MaxRemoved == 2

Systems == {"events", "update_pos", "update_pos_ortho", "update_main", "update_resources"}

\* Camera2dBundle values the cameras are spawned with.
ProjA == Ortho(-4, -3, 2)
ProjB == Ortho(0, 0, 1)
Panned == Affine(<<1, 0, 0>>, <<0, 1, 0>>, <<0, 0, 1>>, <<5, 0, 0>>)
Transforms == {Identity, Panned}

\* What the second entity is spawned as: a camera bundle, with or without the
\* ExcludeMouseTracking marker.
Overlay == [target |-> Some(Window("w1")), xf |-> Some(Identity), proj |-> Some(ProjB), excluded |-> FALSE]
Second == [target |-> Some(Window("w2")), xf |-> Some(Identity), proj |-> Some(ProjB), excluded |-> FALSE]
Excluded == [target |-> Some(Window("w2")), xf |-> Some(Identity), proj |-> Some(ProjB), excluded |-> TRUE]
\* An entity that is no camera.
NonCamera == [target |-> None, xf |-> Some(Identity), proj |-> None, excluded |-> FALSE]
\* A camera that renders to an image.
ImageCamera == [target |-> Some(Image), xf |-> Some(Identity), proj |-> Some(ProjB), excluded |-> FALSE]
\* A camera whose window is not (or no longer) in the Windows resource.
ClosedWindow == "w0"
Orphan == [target |-> Some(Window(ClosedWindow)), xf |-> Some(Identity), proj |-> Some(ProjB), excluded |-> FALSE]
\* A camera without GlobalTransform, and one without OrthographicProjection
\* (a Camera3dBundle with a perspective projection).
NoTransform == [target |-> Some(Window("w1")), xf |-> None, proj |-> Some(ProjB), excluded |-> FALSE]
Perspective == [target |-> Some(Window("w1")), xf |-> Some(Identity), proj |-> None, excluded |-> FALSE]

NoPos == [e \in Entities |-> None]
AllFalse == [e \in Entities |-> FALSE]

InitMotion ==
    /\ motOld = <<>> /\ motNew = <<>> /\ motRead = 0
    /\ motRes = Vec2Zero                    \* insert_resource(MouseMotion { delta: Vec2::ZERO })
    /\ motRan = {} /\ motReported = <<>>

InitOrtho ==
    /\ oScreen = Vec2Zero /\ oXf = Identity /\ oProj = ProjB /\ oOut = None

\* MousePosPlugin::build, and the cameras the application spawned.
InitTrack(setups) ==
    /\ phase = "app" /\ ran = {}
    /\ alive = [e \in Entities |-> TRUE]
    /\ \E s \in setups :
        /\ target = [e \in Entities |-> IF e = "e1" THEN Some(Window("w1")) ELSE s.target]
        /\ xf = [e \in Entities |-> IF e = "e1" THEN Some(Identity) ELSE s.xf]
        /\ proj = [e \in Entities |-> IF e = "e1" THEN Some(ProjA) ELSE s.proj]
        /\ excluded = [e \in Entities |-> IF e = "e1" THEN FALSE ELSE s.excluded]
    /\ pos = NoPos /\ world = NoPos
    /\ posChOrtho = AllFalse /\ posChRes = AllFalse /\ worldChRes = AllFalse
    /\ marker = AllFalse /\ addedMain = AllFalse /\ removed = <<>>
    /\ movement = <<>>
    /\ cursor = [w \in Windows |-> None]
    /\ store = None                         \* init_resource::<MainCameraStore>()
    /\ mainDefinedLastFrame = FALSE         \* Local<bool>
    /\ resPos = Vec2Zero                    \* insert_resource(MousePos(default()))
    /\ resWorld = Vec3Zero                  \* insert_resource(MousePosWorld(default()))
    /\ posBefore = NoPos /\ readEvents = <<>> /\ hadMainPrev = FALSE /\ hadMainPrev2 = FALSE
    /\ resWrite = "none"


----------------------------------------------------------------------------
\* Groups of variables, for UNCHANGED.
gSched == <<phase, ran>>
gCam == <<alive, target, excluded, xf, proj>>
gPos == <<pos, posChOrtho, posChRes>>
gWorld == <<world, worldChRes>>
gMark == <<marker, addedMain, removed>>
gEv == <<movement, cursor>>
gRes == <<store, mainDefinedLastFrame, resPos, resWorld>>
gHist == <<posBefore, readEvents, hadMainPrev, hadMainPrev2, resWrite>>
gOther == <<varsMotion, varsOrtho>>

\* The application's systems run (the stages after CoreStage::First).
InApp == phase = "app"
\* After World::clear_trackers of the previous frame and before the first system of
\* CoreStage::First: what is removed here is still recorded when update_main runs.
BeforeFirst == phase = "first" /\ ran = {} /\ movement = <<>>

----------------------------------------------------------------------------
\* The host and the application.

\* winit reports a cursor movement: the window remembers it and a CursorMoved event
\* is sent. Events are sent between two runs of the schedule.
CursorMovedArrives(w, p) ==
    /\ phase = "first" /\ ran = {}
    /\ Len(movement) < MaxEvents
    /\ movement' = Append(movement, [id |-> w, position |-> p])
    /\ cursor' = [cursor EXCEPT ![w] = Some(p)]
    /\ UNCHANGED <<gSched, gCam, gPos, gWorld, gMark, gRes, gHist, gOther>>

\* pan_camera of examples/world.rs: the camera's transform changes.
PanCamera(e, t) ==
    /\ InApp /\ alive[e] /\ IsSome(xf[e]) /\ Unwrap(xf[e]) # t
    /\ xf' = [xf EXCEPT ![e] = Some(t)]
    /\ UNCHANGED <<gSched, alive, target, excluded, proj, gPos, gWorld, gMark, gEv, gRes,
                   gHist, gOther>>

\* .remove::<OrthographicProjection>(): the camera is given another projection.
RemoveOrthographicProjection(e) ==
    /\ InApp /\ alive[e] /\ IsSome(proj[e])
    /\ proj' = [proj EXCEPT ![e] = None]
    /\ UNCHANGED <<gSched, alive, target, excluded, xf, gPos, gWorld, gMark, gEv, gRes,
                   gHist, gOther>>

\* RemovedComponents<MainCamera> after entity e lost the marker. What is removed
\* while the application's stages run is cleared by World::clear_trackers at the end
\* of that frame, before update_main (CoreStage::First) runs again.
RecordRemoval(e) == IF phase = "first" THEN Append(removed, e) ELSE removed

\* .insert(MainCamera)
InsertMainCamera(e) ==
    /\ InApp \/ BeforeFirst
    /\ alive[e] /\ ~marker[e]
    /\ marker' = [marker EXCEPT ![e] = TRUE]
    /\ addedMain' = [addedMain EXCEPT ![e] = TRUE]
    /\ UNCHANGED <<gSched, gCam, gPos, gWorld, removed, gEv, gRes, gHist, gOther>>

\* .remove::<MainCamera>()
RemoveMainCamera(e) ==
    /\ InApp \/ (BeforeFirst /\ Len(removed) < MaxRemoved)
    /\ alive[e] /\ marker[e]
    /\ marker' = [marker EXCEPT ![e] = FALSE]
    /\ addedMain' = [addedMain EXCEPT ![e] = FALSE]
    /\ removed' = RecordRemoval(e)
    /\ UNCHANGED <<gSched, gCam, gPos, gWorld, gEv, gRes, gHist, gOther>>

\* .despawn(): every component of the entity goes with it.
Despawn(e) ==
    /\ InApp \/ (BeforeFirst /\ Len(removed) < MaxRemoved)
    /\ alive[e]
    /\ alive' = [alive EXCEPT ![e] = FALSE]
    /\ target' = [target EXCEPT ![e] = None]
    /\ excluded' = [excluded EXCEPT ![e] = FALSE]
    /\ xf' = [xf EXCEPT ![e] = None]
    /\ proj' = [proj EXCEPT ![e] = None]
    /\ pos' = [pos EXCEPT ![e] = None]
    /\ posChOrtho' = [posChOrtho EXCEPT ![e] = FALSE]
    /\ posChRes' = [posChRes EXCEPT ![e] = FALSE]
    /\ world' = [world EXCEPT ![e] = None]
    /\ worldChRes' = [worldChRes EXCEPT ![e] = FALSE]
    /\ marker' = [marker EXCEPT ![e] = FALSE]
    /\ addedMain' = [addedMain EXCEPT ![e] = FALSE]
    /\ removed' = IF marker[e] THEN RecordRemoval(e) ELSE removed
    /\ UNCHANGED <<gSched, gEv, gRes, gHist, gOther>>

----------------------------------------------------------------------------
\* InsertExt for EntityMut (the commands AddMouseTracking / AddWorldTracking apply
\* the same two methods).

\* add_mouse_tracking panics: no Camera, a camera that renders to an image, a window
\* that resource::<Windows>().get(window) does not find.
MouseTrackingPanics(e) ==
    \/ ~IsSome(target[e])                       \* no_camera
    \/ Unwrap(target[e]) = Image                \* image_camera
    \/ Unwrap(target[e])[2] \notin Windows      \* no_window

\* MousePos is inserted with its default value, whatever the window reports.
CursorIgnored(e) == Vec2Zero

\* window.cursor_position().unwrap_or_default()
CursorOrDefault(e) ==
    LET c == cursor[Unwrap(target[e])[2]]
    IN  IF IsSome(c) THEN Unwrap(c) ELSE Vec2Zero

\* MousePos is inserted with its default value first and the window is looked up
\* afterwards: a panic leaves the default behind.
add_mouse_tracking_insert_first(e) ==
    /\ InApp /\ alive[e]
    /\ pos' = [pos EXCEPT ![e] = IF MouseTrackingPanics(e) THEN Some(Vec2Zero)
                                 ELSE Some(CursorOrDefault(e))]
    /\ posChOrtho' = [posChOrtho EXCEPT ![e] = TRUE]
    /\ posChRes' = [posChRes EXCEPT ![e] = TRUE]
    /\ phase' = IF MouseTrackingPanics(e) THEN "aborted" ELSE phase
    /\ UNCHANGED <<ran, gCam, gWorld, gMark, gEv, gRes, gHist, gOther>>

\* fn add_mouse_tracking(&mut self)
add_mouse_tracking(e) ==
    /\ InApp /\ alive[e]
    /\ IF MouseTrackingPanics(e)
       THEN /\ phase' = "aborted"
            /\ UNCHANGED gPos
       ELSE /\ pos' = [pos EXCEPT ![e] = Some(CursorOrDefault(e))]
            /\ posChOrtho' = [posChOrtho EXCEPT ![e] = TRUE]
            /\ posChRes' = [posChRes EXCEPT ![e] = TRUE]
            /\ UNCHANGED phase
    /\ UNCHANGED <<ran, gCam, gWorld, gMark, gEv, gRes, gHist, gOther>>

\* The world position is computed from MousePos::default(), not from the MousePos
\* add_mouse_tracking has just inserted.
add_world_tracking_unseeded(e) ==
    /\ InApp /\ alive[e]
    /\ IF MouseTrackingPanics(e)
       THEN /\ phase' = "aborted"
            /\ UNCHANGED <<gPos, gWorld>>
       ELSE /\ pos' = [pos EXCEPT ![e] = Some(CursorOrDefault(e))]
            /\ posChOrtho' = [posChOrtho EXCEPT ![e] = TRUE]
            /\ posChRes' = [posChRes EXCEPT ![e] = TRUE]
            /\ IF ~IsSome(xf[e]) \/ ~IsSome(proj[e])
               THEN /\ phase' = "aborted"
                    /\ UNCHANGED gWorld
               ELSE /\ world' = [world EXCEPT ![e] =
                            Some(compute_world_pos_ortho(Vec2Zero, Unwrap(xf[e]),
                                                         Unwrap(proj[e])))]
                    /\ worldChRes' = [worldChRes EXCEPT ![e] = TRUE]
                    /\ UNCHANGED phase
    /\ UNCHANGED <<ran, gCam, gMark, gEv, gRes, gHist, gOther>>

\* MousePosWorld is inserted from the window's cursor without the call of
\* add_mouse_tracking: no MousePos is inserted.
add_world_tracking_alone(e) ==
    /\ InApp /\ alive[e]
    /\ IF MouseTrackingPanics(e) \/ ~IsSome(xf[e]) \/ ~IsSome(proj[e])
       THEN /\ phase' = "aborted"
            /\ UNCHANGED gWorld
       ELSE /\ world' = [world EXCEPT ![e] =
                    Some(compute_world_pos_ortho(CursorOrDefault(e), Unwrap(xf[e]),
                                                 Unwrap(proj[e])))]
            /\ worldChRes' = [worldChRes EXCEPT ![e] = TRUE]
            /\ UNCHANGED phase
    /\ UNCHANGED <<ran, gCam, gPos, gMark, gEv, gRes, gHist, gOther>>

\* fn add_world_tracking(&mut self)
add_world_tracking(e) ==
    /\ InApp /\ alive[e]
    /\ IF MouseTrackingPanics(e)
       THEN /\ phase' = "aborted"
            /\ UNCHANGED <<gPos, gWorld>>
       ELSE /\ pos' = [pos EXCEPT ![e] = Some(CursorOrDefault(e))]
            /\ posChOrtho' = [posChOrtho EXCEPT ![e] = TRUE]
            /\ posChRes' = [posChRes EXCEPT ![e] = TRUE]
            /\ IF ~IsSome(xf[e]) \/ ~IsSome(proj[e])      \* no_transform, no_proj
               THEN /\ phase' = "aborted"
                    /\ UNCHANGED gWorld
               ELSE /\ world' = [world EXCEPT ![e] =
                            Some(compute_world_pos_ortho(CursorOrDefault(e), Unwrap(xf[e]),
                                                         Unwrap(proj[e])))]
                    /\ worldChRes' = [worldChRes EXCEPT ![e] = TRUE]
                    /\ UNCHANGED phase
    /\ UNCHANGED <<ran, gCam, gMark, gEv, gRes, gHist, gOther>>

----------------------------------------------------------------------------
\* The systems MousePosPlugin::build adds to CoreStage::First, and the order it
\* declares between them: a system may run once every system it is declared
\* `.after` has run; the scheduler is free otherwise.

\* update_resources declared after update_pos_ortho alone.
AfterWithoutMain(sys) ==
    CASE sys = "events" -> {}
      [] sys = "update_pos" -> {"events"}
      [] sys = "update_pos_ortho" -> {"update_pos"}
      [] sys = "update_main" -> {}
      [] sys = "update_resources" -> {"update_pos_ortho"}

After(sys) ==
    CASE sys = "events" -> {}                                       \* Events::<CursorMoved>::update_system
      [] sys = "update_pos" -> {"events"}                           \* update_pos.after(update_system)
      [] sys = "update_pos_ortho" -> {"update_pos"}                 \* update_pos_ortho.after(update_pos)
      [] sys = "update_main" -> {}                                  \* no constraint declared
      [] sys = "update_resources" -> {"update_pos_ortho", "update_main"}

CanRun(sys) == phase = "first" /\ sys \notin ran /\ After(sys) \subseteq ran

\* Events::<CursorMoved>::update_system: rotates the event buffers. update_pos reads
\* every frame, so no event it has not read is ever dropped by the rotation.
events_update_system ==
    /\ CanRun("events")
    /\ ran' = ran \cup {"events"}
    /\ UNCHANGED <<phase, gCam, gPos, gWorld, gMark, gEv, gRes, gHist, gOther>>

\* The filter of update_pos: c.target == RenderTarget::Window(id), on the entities
\* that carry Camera and MousePos.
OnWindow(e, id, p) == IsSome(target[e]) /\ IsSome(p[e]) /\ Unwrap(target[e]) = Window(id)

\* The first notification for a window wins: later ones are ignored.
RECURSIVE ApplyMovesFirstWins(_, _)
ApplyMovesFirstWins(events, p) ==
    IF events = <<>> THEN p
    ELSE LET ev == events[Len(events)]
         IN  ApplyMovesFirstWins(SubSeq(events, 1, Len(events) - 1),
                 [e \in Entities |-> IF OnWindow(e, ev.id, p) THEN Some(ev.position) ELSE p[e]])

\* The inner loop stops at the first camera of the window.
RECURSIVE ApplyMovesFirstCamera(_, _)
ApplyMovesFirstCamera(events, p) ==
    IF events = <<>> THEN p
    ELSE LET ev == Head(events)
             hits == SelectSeq(EntitySeq, LAMBDA e : OnWindow(e, ev.id, p))
         IN  ApplyMovesFirstCamera(Tail(events),
                 [e \in Entities |-> IF hits # <<>> /\ e = Head(hits) THEN Some(ev.position)
                                     ELSE p[e]])

\* The loop of update_pos over movement.iter(), in arrival order.
RECURSIVE ApplyMoves(_, _)
ApplyMoves(events, p) ==
    IF events = <<>> THEN p
    ELSE LET ev == Head(events)
         IN  ApplyMoves(Tail(events),
                 [e \in Entities |-> IF OnWindow(e, ev.id, p) THEN Some(ev.position) ELSE p[e]])

\* Every camera the query of update_pos yields is written, matched or not.
WrittenUnmatched(events) == {e \in Entities : IsSome(target[e]) /\ IsSome(pos[e])}

\* The entities whose MousePos update_pos wrote (DerefMut marks them changed).
Written(events) ==
    {e \in Entities : \E i \in 1..Len(events) : OnWindow(e, events[i].id, pos)}

\* fn update_pos
update_pos ==
    /\ CanRun("update_pos")
    /\ ran' = ran \cup {"update_pos"}
    /\ pos' = ApplyMoves(movement, pos)
    /\ posChOrtho' = [e \in Entities |-> posChOrtho[e] \/ e \in Written(movement)]
    /\ posChRes' = [e \in Entities |-> posChRes[e] \/ e \in Written(movement)]
    /\ movement' = <<>>
    /\ UNCHANGED <<phase, gCam, gWorld, gMark, cursor, gRes, hadMainPrev, hadMainPrev2, resWrite, gOther>>

\* update_pos, with what it found and what it read kept for the rest of the frame.
update_pos_recorded == update_pos /\ posBefore' = pos /\ readEvents' = movement
\* update_pos, unobserved.
update_pos_plain == update_pos /\ UNCHANGED <<posBefore, readEvents>>

\* Query<(Entity, &mut MousePosWorld, &MousePos), Changed<MousePos>> of update_pos_ortho
Tracking(e) == IsSome(world[e]) /\ IsSome(pos[e]) /\ posChOrtho[e]

\* Query<(&GlobalTransform, &OrthographicProjection)>::get(camera)
IsOrthoCamera(e) == IsSome(xf[e]) /\ IsSome(proj[e])

\* fn update_pos_ortho
update_pos_ortho ==
    /\ CanRun("update_pos_ortho")
    /\ ran' = ran \cup {"update_pos_ortho"}
    /\ posChOrtho' = AllFalse
    /\ IF \E e \in Entities : Tracking(e) /\ ~IsOrthoCamera(e)
       THEN \* .expect("only orthographic cameras are supported")
            /\ phase' = "aborted"
            /\ UNCHANGED gWorld
       ELSE /\ world' = [e \in Entities |->
                    IF Tracking(e)
                    THEN Some(compute_world_pos_ortho(Unwrap(pos[e]), Unwrap(xf[e]),
                                                      Unwrap(proj[e])))
                    ELSE world[e]]
            /\ worldChRes' = [e \in Entities |-> worldChRes[e] \/ Tracking(e)]
            /\ UNCHANGED phase
    /\ UNCHANGED <<gCam, pos, posChRes, gMark, gEv, gRes, gHist, gOther>>

\* Vec::position + Vec::remove: drop the first occurrence of rem, if any.
RECURSIVE RemoveFirst(_, _)
RemoveFirst(v, rem) ==
    IF v = <<>> THEN <<>>
    ELSE IF Head(v) = rem THEN Tail(v)
    ELSE <<Head(v)>> \o RemoveFirst(Tail(v), rem)

\* for rem in removed_main.iter() { ... }
RECURSIVE DitchRemoved(_, _)
DitchRemoved(v, rems) ==
    IF rems = <<>> THEN v
    ELSE DitchRemoved(RemoveFirst(v, Head(rems)), Tail(rems))

\* Query<Entity, Added<MainCamera>>
AddedMainSeq == SelectSeq(EntitySeq, LAMBDA e : alive[e] /\ marker[e] /\ addedMain[e])

\* with_marker of update_main, after the removals are ditched.
WithMarker == DitchRemoved(store \o AddedMainSeq, removed)

\* fn update_main
update_main ==
    /\ CanRun("update_main")
    /\ ran' = ran \cup {"update_main"}
    /\ addedMain' = AllFalse
    /\ IF Len(WithMarker) = 1
       THEN /\ store' = Some(WithMarker[1])
            /\ UNCHANGED phase
       ELSE IF WithMarker # <<>>
       THEN \* assert!(with_marker.is_empty(), ...)
            /\ phase' = "aborted"
            /\ UNCHANGED store
       ELSE /\ store' = None
            /\ UNCHANGED phase
    /\ UNCHANGED <<gCam, gPos, gWorld, marker, removed, gEv, mainDefinedLastFrame, resPos,
                   resWorld, gHist, gOther>>

\* Query<&MousePos, Changed<MousePos>>::get(main)
ScreenGet(main) == IF IsSome(pos[main]) /\ posChRes[main] THEN pos[main] ELSE None
\* Query<&MousePosWorld, Changed<MousePosWorld>>::get(main)
WorldGet(main) == IF IsSome(world[main]) /\ worldChRes[main] THEN world[main] ELSE None

\* The resources are zeroed in every frame without a main camera.
ZeroOutLevel == ~IsSome(store)

\* The resources are never zeroed.
ZeroOutNever == FALSE

\* if *main_defined_last_frame { ... }: zero out the resources.
ZeroOut == ~IsSome(store) /\ mainDefinedLastFrame

\* fn update_resources
update_resources ==
    /\ CanRun("update_resources")
    /\ ran' = ran \cup {"update_resources"}
    /\ posChRes' = AllFalse
    /\ worldChRes' = AllFalse
    /\ IF IsSome(store)
       THEN LET main == Unwrap(store)
            IN  /\ mainDefinedLastFrame' = TRUE
                /\ resPos' = IF IsSome(ScreenGet(main)) THEN Unwrap(ScreenGet(main)) ELSE resPos
                /\ resWorld' = IF IsSome(WorldGet(main)) THEN Unwrap(WorldGet(main)) ELSE resWorld
                /\ resWrite' = IF IsSome(ScreenGet(main)) \/ IsSome(WorldGet(main))
                               THEN "copy" ELSE "none"
       ELSE IF ZeroOut
       THEN /\ resPos' = Vec2Zero
            /\ resWorld' = Vec3Zero
            /\ mainDefinedLastFrame' = FALSE
            /\ resWrite' = "reset"
       ELSE /\ UNCHANGED <<mainDefinedLastFrame, resPos, resWorld>>
            /\ resWrite' = "none"
    /\ UNCHANGED <<phase, gCam, pos, posChOrtho, world, gMark, gEv, store, posBefore,
                   readEvents, hadMainPrev, hadMainPrev2, gOther>>

\* Every system of the plugin has run: the end of the frame as far as the plugin goes.
FrameEnd == phase = "first" /\ ran = Systems

\* CoreStage::First is over; the application's stages follow.
FirstStageDone ==
    /\ FrameEnd
    /\ phase' = "app"
    /\ ran' = {}
    /\ posBefore' = NoPos
    /\ readEvents' = <<>>
    /\ resWrite' = "none"
    /\ hadMainPrev' = IsSome(store)
    /\ hadMainPrev2' = hadMainPrev
    /\ UNCHANGED <<gCam, gPos, gWorld, gMark, gEv, gRes, gOther>>

\* World::clear_trackers at the end of App::update.
ClearTrackers ==
    /\ InApp
    /\ phase' = "first"
    /\ removed' = <<>>
    /\ UNCHANGED <<ran, gCam, gPos, gWorld, marker, addedMain, gEv, gRes, gHist, gOther>>

\* The systems of CoreStage::First, in any order the declared constraints allow.
FirstStage(pos_system) ==
    \/ events_update_system
    \/ pos_system
    \/ update_pos_ortho
    \/ update_main
    \/ update_resources
    \/ FirstStageDone

----------------------------------------------------------------------------
\* Screen tracking: two cameras, on one window or on two, fed cursor movements.
InitPos == InitTrack({Overlay, Second, Excluded}) /\ InitMotion /\ InitOrtho
NextPos ==
    \/ \E w \in Windows, p \in Positions : CursorMovedArrives(w, p)
    \/ \E e \in Entities : add_mouse_tracking(e)
    \/ \E e \in Entities : Despawn(e)
    \/ FirstStage(update_pos_recorded)
    \/ ClearTrackers
SpecPos == InitPos /\ [][NextPos]_vars

\* Main camera: the marker moves between two world-tracked cameras of one window.
InitMain == InitTrack({Overlay}) /\ InitMotion /\ InitOrtho
NextMain ==
    \/ \E p \in Positions : CursorMovedArrives("w1", p)
    \/ \E e \in Entities : InsertMainCamera(e)
    \/ \E e \in Entities : RemoveMainCamera(e)
    \/ \E e \in Entities : Despawn(e)
    \/ \E e \in Entities : add_world_tracking(e)
    \/ FirstStage(update_pos_plain)
    \/ ClearTrackers
SpecMain == InitMain /\ [][NextMain]_vars

\* World tracking: cameras that pan.
InitWorld == InitTrack({Overlay}) /\ InitMotion /\ InitOrtho
NextWorld ==
    \/ \E p \in Positions : CursorMovedArrives("w1", p)
    \/ \E e \in Entities, t \in Transforms : PanCamera(e, t)
    \/ \E e \in Entities : add_mouse_tracking(e)
    \/ \E e \in Entities : add_world_tracking(e)
    \/ FirstStage(update_pos_plain)
    \/ ClearTrackers
SpecWorld == InitWorld /\ [][NextWorld]_vars

\* Two windows: world-tracked cameras of which one hears of cursor movements and the
\* other does not.
InitHold == InitTrack({Second}) /\ InitMotion /\ InitOrtho
NextHold ==
    \/ \E w \in Windows, p \in Positions : CursorMovedArrives(w, p)
    \/ PanCamera("e2", Panned)
    \/ \E e \in Entities : add_world_tracking(e)
    \/ FirstStage(update_pos_plain)
    \/ ClearTrackers
SpecHold == InitHold /\ [][NextHold]_vars

\* Initialization: the two InsertExt methods on entities that may lack what they need.
InitInit == InitTrack({Overlay, NonCamera, ImageCamera, Orphan, NoTransform, Perspective})
            /\ InitMotion /\ InitOrtho
NextInit ==
    \/ \E p \in Positions : CursorMovedArrives("w1", p)
    \/ \E e \in Entities : add_mouse_tracking(e)
    \/ \E e \in Entities : add_world_tracking(e)
    \/ \E e \in Entities : RemoveOrthographicProjection(e)
    \/ FirstStage(update_pos_plain)
    \/ ClearTrackers
SpecInit == InitInit /\ [][NextInit]_vars

----------------------------------------------------------------------------
\* MouseMotionPlugin (src/src/mouse_motion.rs).

\* Raw motion deltas the host can report.
Deltas == {<<1, 2>>, <<3, -1>>}
\* Number of raw motion notifications the host reports between two frames.
MaxMotion == 2

MotionSteps == {"own_events", "raw_events", "update_mouse_motion"}

\* The host reports a raw mouse motion: Events<BevyMouseMotion>::send.
MotionArrives(d) ==
    /\ motRan = {}
    /\ Len(motReported) < MaxMotion
    /\ motNew' = Append(motNew, d)
    /\ motReported' = Append(motReported, d)
    /\ UNCHANGED <<motOld, motRead, motRes, motRan, varsTrack, varsOrtho>>

\* event_update_system::<MouseMotion>, added by add_event::<MouseMotion>(): rotates
\* the buffers of the plugin's own event type, which nothing sends.
own_event_update_system ==
    /\ "own_events" \notin motRan
    /\ motRan' = motRan \cup {"own_events"}
    /\ UNCHANGED <<motOld, motNew, motRead, motRes, motReported, varsTrack, varsOrtho>>

\* The update system of Events<BevyMouseMotion>: the older buffer is dropped, the
\* newer one becomes the older. No order is declared between it and
\* update_mouse_motion.
raw_event_update_system ==
    /\ "raw_events" \notin motRan
    /\ motRan' = motRan \cup {"raw_events"}
    /\ motRead' = IF motRead > Len(motOld) THEN motRead - Len(motOld) ELSE 0
    /\ motOld' = motNew
    /\ motNew' = <<>>
    /\ UNCHANGED <<motRes, motReported, varsTrack, varsOrtho>>

\* events.read(): the events of both buffers the reader has not read yet.
MotionUnread == SubSeq(motOld \o motNew, motRead + 1, Len(motOld) + Len(motNew))

\* .fold(acc, |acc, e| acc + e.delta)
RECURSIVE FoldDelta(_, _)
FoldDelta(acc, events) ==
    IF events = <<>> THEN acc ELSE FoldDelta(Vec2Add(acc, Head(events)), Tail(events))

\* The fold starts from the delta of the previous frame.
MotionDeltaCarried == FoldDelta(motRes, MotionUnread)

\* let delta = events.read().fold(Vec2::ZERO, |acc, e| acc + e.delta);
MotionDelta == FoldDelta(Vec2Zero, MotionUnread)

\* fn update_mouse_motion, declared .after(event_update_system::<MouseMotion>)
update_mouse_motion ==
    /\ "update_mouse_motion" \notin motRan
    /\ "own_events" \in motRan
    /\ motRan' = motRan \cup {"update_mouse_motion"}
    /\ motRes' = MotionDelta
    /\ motRead' = Len(motOld) + Len(motNew)
    /\ UNCHANGED <<motOld, motNew, motReported, varsTrack, varsOrtho>>

\* Every step of the frame has run.
MotionFrameEnd == motRan = MotionSteps

\* The next frame begins.
MotionNextFrame ==
    /\ MotionFrameEnd
    /\ motRan' = {}
    /\ motReported' = <<>>
    /\ UNCHANGED <<motOld, motNew, motRead, motRes, varsTrack, varsOrtho>>

NextMotion ==
    \/ \E d \in Deltas : MotionArrives(d)
    \/ own_event_update_system
    \/ raw_event_update_system
    \/ update_mouse_motion
    \/ MotionNextFrame
SpecMotion == InitMain /\ [][NextMotion]_vars

----------------------------------------------------------------------------
\* compute_world_pos_ortho on free inputs.
ScreenSamples == {<<0, 0>>, <<100, 50>>, <<400, 300>>, <<1, 2>>, <<3, 1>>}
ProjSamples == {Ortho(0, 0, 1), Ortho(-400, -300, 2), ProjA}
\* identity, a translation, a scale with a translation, a quarter turn about z.
TransformSamples ==
    { Identity, Panned,
      Affine(<<3, 0, 0>>, <<0, 3, 0>>, <<0, 0, 3>>, <<7, -2, 1>>),
      Affine(<<0, 1, 0>>, <<-1, 0, 0>>, <<0, 0, 1>>, <<10, 20, 0>>) }

OrthoInputs(s, t, p) ==
    /\ oScreen' = s /\ oXf' = t /\ oProj' = p
    /\ oOut' = None
    /\ UNCHANGED <<varsTrack, varsMotion>>

OrthoCompute ==
    /\ oOut = None
    /\ oOut' = Some(compute_world_pos_ortho(oScreen, oXf, oProj))
    /\ UNCHANGED <<oScreen, oXf, oProj, varsTrack, varsMotion>>

NextOrtho ==
    \/ \E s \in ScreenSamples, t \in TransformSamples, p \in ProjSamples : OrthoInputs(s, t, p)
    \/ OrthoCompute
SpecOrtho == InitMain /\ [][NextOrtho]_vars

----------------------------------------------------------------------------
\* Properties.

\* C7: compute_world_pos_ortho returns the world transform applied to
\* ((screen + (left, bottom)) * scale, 0): offset and scale act in camera-local
\* space, before the transform; with the identity transform, offset (0,0), scale 1,
\* screen (100,50) gives (100,50,0) and offset (-400,-300), scale 2, screen (400,300)
\* gives (0,0,0).
C7_WorldPosFormula ==
    IsSome(oOut) =>
        LET lx == (oScreen[1] + oProj.left) * oProj.scale
            ly == (oScreen[2] + oProj.bottom) * oProj.scale
            out == Unwrap(oOut)
        IN  /\ \A k \in 1..3 :
                out[k] = oXf.x_axis[k] * lx + oXf.y_axis[k] * ly + oXf.translation[k]
            /\ (oXf = Identity /\ oProj = Ortho(0, 0, 1) /\ oScreen = <<100, 50>>)
                   => out = <<100, 50, 0>>
            /\ (oXf = Identity /\ oProj = Ortho(-400, -300, 2) /\ oScreen = <<400, 300>>)
                   => out = <<0, 0, 0>>
\* A scaled projection under a translated camera has been converted.
C7_Witness ==
    /\ IsSome(oOut) /\ oXf = Panned /\ oProj = ProjA /\ oScreen = <<3, 1>>
    /\ Unwrap(oOut) = <<3, -4, 0>>

\* C8: at the end of every frame the MouseMotion resource holds the component-wise
\* sum of exactly the raw motions reported since the previous frame, the zero
\* vector when there were none.
C8_DeltaIsSumOfFrame ==
    MotionFrameEnd =>
        /\ motRes[1] = FoldDelta(Vec2Zero, motReported)[1]
        /\ motRes[2] = FoldDelta(Vec2Zero, motReported)[2]
        /\ (motReported = <<>> => motRes = <<0, 0>>)
        /\ (motReported = << <<1, 2>>, <<3, -1>> >> => motRes = <<4, 1>>)
\* A frame with [(1,2),(3,-1)] ended with (4,1).
C8_Witness ==
    MotionFrameEnd /\ motReported = << <<1, 2>>, <<3, -1>> >> /\ motRes = <<4, 1>>

\* The notifications update_pos read for window w, by index in arrival order.
ReadFor(w) == {i \in 1..Len(readEvents) : readEvents[i].id = w}
\* update_pos has run in this frame.
AfterUpdatePos == phase = "first" /\ "update_pos" \in ran

\* C2: after update_pos, every tracked camera whose render target is window W holds
\* the coordinates of the last CursorMoved for W of this frame, in arrival order, and
\* every tracked camera of a window without notification holds what it held before.
C2_LastNotificationWins ==
    AfterUpdatePos =>
        \A e \in Entities :
            IF IsSome(posBefore[e]) /\ IsSome(target[e]) /\ Unwrap(target[e])[1] = "window"
               /\ ReadFor(Unwrap(target[e])[2]) # {}
            THEN LET I == ReadFor(Unwrap(target[e])[2])
                     last == CHOOSE i \in I : \A j \in I : j <= i
                 IN  pos[e] = Some(readEvents[last].position)
            ELSE pos[e] = posBefore[e]
\* Two different notifications for w1 were read; the camera of w1 holds the second,
\* the camera of w2 keeps its earlier, different position.
C2_Witness ==
    /\ AfterUpdatePos
    /\ Len(readEvents) = 2
    /\ readEvents[1].id = "w1" /\ readEvents[2].id = "w1"
    /\ readEvents[1].position # readEvents[2].position
    /\ target["e1"] = Some(Window("w1")) /\ target["e2"] = Some(Window("w2"))
    /\ IsSome(posBefore["e1"]) /\ pos["e1"] = Some(readEvents[2].position)
    /\ IsSome(posBefore["e2"]) /\ pos["e2"] = posBefore["e2"]
    /\ pos["e2"] = Some(readEvents[1].position)

\* C1: at the end of every frame in which the MainCameraStore holds M, the MousePos
\* resource equals M's MousePos component and the MousePosWorld resource equals M's
\* MousePosWorld component.
C1_GlobalsMirrorMain ==
    (FrameEnd /\ IsSome(store)) =>
        LET m == Unwrap(store)
        IN  /\ IsSome(pos[m]) => resPos = Unwrap(pos[m])
            /\ IsSome(world[m]) => resWorld = Unwrap(world[m])

\* The entities that carry the MainCamera marker.
MarkerHolders == {e \in Entities : alive[e] /\ marker[e]}
\* update_main has run in this frame and returned.
AfterUpdateMain == phase = "first" /\ "update_main" \in ran

\* C3: update_main never returns in a frame in which two or more entities carry the
\* MainCamera marker: it aborts the program.
C3_TwoMarkersAbort == AfterUpdateMain => Cardinality(MarkerHolders) <= 1

\* C4: at the end of every frame in which the MainCameraStore is empty, the MousePos
\* and MousePosWorld resources hold the default (zero) value.
C4_NoMainMeansZero ==
    (FrameEnd /\ ~IsSome(store)) => (resPos = Vec2Zero /\ resWorld = Vec3Zero)
\* The main camera was unset in this frame, while a camera that is still tracked
\* holds a position that is not zero.
C4_Witness ==
    /\ FrameEnd /\ ~IsSome(store) /\ hadMainPrev
    /\ resPos = Vec2Zero /\ resWorld = Vec3Zero
    /\ \E e \in Entities : IsSome(pos[e]) /\ Unwrap(pos[e]) # Vec2Zero
                           /\ IsSome(world[e]) /\ Unwrap(world[e]) # Vec3Zero

\* C5: update_resources writes the default value to the two resources in exactly the
\* first frame in which the MainCameraStore is empty after a frame in which it held an
\* entity, and writes nothing in any other frame without a main camera.
C5_ResetIsEdgeTriggered ==
    FrameEnd =>
        /\ resWrite = "reset" <=> (~IsSome(store) /\ hadMainPrev)
        /\ (~IsSome(store) /\ ~hadMainPrev) => resWrite = "none"
\* The second consecutive frame without a main camera, after one that had it: nothing
\* is written.
C5_Witness ==
    /\ FrameEnd /\ ~IsSome(store) /\ ~hadMainPrev /\ hadMainPrev2
    /\ resWrite = "none"

\* C6: at the end of every frame, every camera that carries MousePos, MousePosWorld,
\* a GlobalTransform and an OrthographicProjection has
\* world position = compute_world_pos_ortho(screen position, transform, projection),
\* also when only the transform changed in that frame.
C6_WorldFollowsTransform ==
    FrameEnd =>
        \A e \in Entities :
            (IsSome(pos[e]) /\ IsSome(world[e]) /\ IsOrthoCamera(e)) =>
                Unwrap(world[e]) =
                    compute_world_pos_ortho(Unwrap(pos[e]), Unwrap(xf[e]), Unwrap(proj[e]))

\* The chain of steps, in the order the specification gives them.
Chain == <<"events", "update_pos", "update_pos_ortho", "update_main", "update_resources">>

\* C9 (as stated): within a frame no step of the chain events, update_pos,
\* update_pos_ortho, update_main, update_resources runs before an earlier one.
C9_StrictChain ==
    phase = "first" =>
        \A i, j \in 1..Len(Chain) : (i < j /\ Chain[j] \in ran) => Chain[i] \in ran
\* C9 (amended): within a frame update_pos runs after the event update, update_pos_ortho
\* after update_pos, and update_resources after both update_pos_ortho and update_main;
\* update_main is not ordered with respect to the first three.
C9_DeclaredOrder ==
    phase = "first" =>
        /\ "update_pos" \in ran => "events" \in ran
        /\ "update_pos_ortho" \in ran => "update_pos" \in ran
        /\ "update_resources" \in ran => {"update_pos_ortho", "update_main"} \subseteq ran
\* update_main has run while cursor notifications wait for update_pos.
C9_Witness ==
    /\ phase = "first" /\ "update_main" \in ran /\ "update_pos" \notin ran
    /\ movement # <<>>

\* C10: an entity that carries ExcludeMouseTracking never carries MousePos or
\* MousePosWorld.
C10_ExcludedNeverTracked ==
    \A e \in Entities : excluded[e] => (~IsSome(pos[e]) /\ ~IsSome(world[e]))

\* The window camera e renders to, once resource::<Windows>() has resolved it.
WindowOf(e) == Unwrap(target[e])[2]
\* A step of the application's stages after which e carries a MousePos that was
\* inserted by that step.
Seeded(e) ==
    /\ InApp /\ phase' = "app" /\ IsSome(pos'[e])
    /\ pos'[e] # pos[e] \/ (posChOrtho'[e] /\ ~posChOrtho[e])

\* C11: the step that applies add_mouse_tracking to a camera of window W leaves it,
\* in that very step and before update_pos reads any CursorMoved, with a MousePos
\* equal to the cursor position W reports at that moment (the default where W
\* reports none).
C11_SeededFromCursor ==
    [][\A e \in Entities :
          Seeded(e) =>
              /\ IsSome(target[e]) /\ Unwrap(target[e])[1] = "window" /\ WindowOf(e) \in Windows
              /\ pos'[e] = IF cursor[WindowOf(e)] = None THEN Some(<<0, 0>>)
                            ELSE cursor[WindowOf(e)]]_vars
\* The camera of w2 was given tracking while the cursor was at (3,1) in w2 and at
\* (1,2) in w1: it holds (3,1), and no system has looked at it yet.
C11_Witness ==
    /\ InApp /\ target["e2"] = Some(Window("w2"))
    /\ cursor["w2"] = Some(<<3, 1>>) /\ cursor["w1"] = Some(<<1, 2>>)
    /\ pos["e2"] = Some(<<3, 1>>) /\ posChOrtho["e2"] /\ posChRes["e2"]

\* update_pos_ortho has run in this frame and returned.
AfterUpdatePosOrtho == phase = "first" /\ "update_pos_ortho" \in ran

\* C12: update_pos_ortho never returns in a frame in which a camera that carries
\* MousePosWorld has no OrthographicProjection, whether or not that camera's MousePos
\* changed in the frame: it aborts the program.
C12_NonOrthoAborts ==
    AfterUpdatePosOrtho =>
        \A e \in Entities :
            (alive[e] /\ ~excluded[e] /\ IsSome(pos[e]) /\ IsSome(world[e])) => IsSome(proj[e])

\* The entity is no camera, renders to an image, or renders to a window the Windows
\* resource does not hold.
NoWindowFor(e) == target[e] \notin {Some(Window(w)) : w \in Windows}

\* C13: add_mouse_tracking applied to an entity without Camera, to a camera that
\* renders to an image, or to a camera whose window is not found aborts the program
\* and inserts no MousePos.
C13_NoWindowAborts ==
    [][\A e \in Entities :
          (add_mouse_tracking(e) /\ NoWindowFor(e)) => (phase' = "aborted" /\ pos' = pos)]_vars
\* The program was aborted by an initialization while the application's stages ran:
\* the first camera is tracked, the second entity has no window and no MousePos.
C13_Witness ==
    /\ phase = "aborted" /\ ran = {}
    /\ IsSome(pos["e1"]) /\ NoWindowFor("e2") /\ ~IsSome(pos["e2"])

\* A camera of a window the Windows resource holds, with GlobalTransform and
\* OrthographicProjection.
OrthoWindowCamera(e) == ~NoWindowFor(e) /\ IsSome(xf[e]) /\ IsSome(proj[e])
\* The step in which update_pos_ortho runs.
UpdatePosOrthoStep == phase = "first" /\ "update_pos_ortho" \notin ran /\ "update_pos_ortho" \in ran'

\* C14: add_world_tracking applied to a window camera with GlobalTransform and
\* OrthographicProjection does not abort, leaves the camera with the MousePos that
\* add_mouse_tracking seeds from the window's cursor, and with MousePosWorld =
\* compute_world_pos_ortho(that MousePos, transform, projection); update_pos_ortho
\* writes the value of the same function of the same inputs.
C14_WorldSeededLikeUpdater ==
    [][\A e \in Entities :
          /\ (add_world_tracking(e) /\ OrthoWindowCamera(e)) =>
                 /\ phase' = "app"
                 /\ pos'[e] = IF cursor[WindowOf(e)] = None THEN Some(<<0, 0>>)
                               ELSE cursor[WindowOf(e)]
                 /\ world'[e] = Some(compute_world_pos_ortho(Unwrap(pos'[e]), Unwrap(xf[e]),
                                                             Unwrap(proj[e])))
          /\ (UpdatePosOrthoStep /\ phase' = "first" /\ Tracking(e)) =>
                 world'[e] = Some(compute_world_pos_ortho(Unwrap(pos[e]), Unwrap(xf[e]),
                                                          Unwrap(proj[e])))]_vars
\* A panned camera with a scaled projection was given world tracking while the cursor
\* was at (3,1): it holds (3,1) and (3,-4,0), and no system has looked at it yet.
C14_Witness ==
    /\ InApp /\ cursor["w1"] = Some(<<3, 1>>)
    /\ xf["e1"] = Some(Panned) /\ proj["e1"] = Some(ProjA)
    /\ pos["e1"] = Some(<<3, 1>>) /\ world["e1"] = Some(<<3, -4, 0>>)
    /\ posChOrtho["e1"] /\ worldChRes["e1"]

\* C15: add_world_tracking applied to a camera without GlobalTransform or without
\* OrthographicProjection aborts the program, and the abort leaves no camera with a
\* MousePos that step inserted and no MousePosWorld.
C15_NoPartialFailure ==
    [][\A e \in Entities :
          /\ (add_world_tracking(e) /\ ~(IsSome(xf[e]) /\ IsSome(proj[e]))) => phase' = "aborted"
          /\ (InApp /\ phase' = "aborted" /\ ~IsSome(pos[e]) /\ IsSome(pos'[e]))
                 => IsSome(world'[e])]_vars

\* C16: at the end of every frame, every camera without ExcludeMouseTracking carries
\* MousePos and MousePosWorld, whether or not add_mouse_tracking or
\* add_world_tracking was ever applied to it.
C16_CamerasTrackedAfterFrame ==
    FrameEnd =>
        \A e \in Entities :
            (alive[e] /\ IsSome(target[e]) /\ ~excluded[e]) => (IsSome(pos[e]) /\ IsSome(world[e]))

\* C17: whenever update_main has run in a frame and returned, the MainCameraStore
\* holds e exactly when e is the one entity that carries MainCamera, and is empty
\* exactly when no entity carries it.
C17_StoreMatchesMarkers ==
    AfterUpdateMain =>
        /\ \A e \in Entities : store = Some(e) <=> MarkerHolders = {e}
        /\ store = None <=> MarkerHolders = {}

\* The step in which update_pos runs, and the windows the notifications it reads
\* are for.
UpdatePosStep == phase = "first" /\ "update_pos" \notin ran /\ "update_pos" \in ran'
NotifiedWindows == {movement[i].id : i \in 1..Len(movement)}

\* C18: in a frame without CursorMoved for a camera's window, update_pos leaves the
\* camera's MousePos as it was and does not mark it changed, and update_pos_ortho
\* leaves the MousePosWorld of a camera whose MousePos is not marked changed as it
\* was: both values are held, not reset.
C18_HeldWithoutNotification ==
    [][\A e \in Entities :
          /\ (UpdatePosStep /\ IsSome(pos[e]) /\ ~NoWindowFor(e)
                 /\ WindowOf(e) \notin NotifiedWindows) =>
                 /\ pos'[e] = pos[e]
                 /\ posChOrtho'[e] = posChOrtho[e] /\ posChRes'[e] = posChRes[e]
          /\ (UpdatePosOrthoStep /\ ~posChOrtho[e]) => world'[e] = world[e]]_vars
\* update_pos and update_pos_ortho have run: the camera of w1 was written in this
\* frame; the camera of w2, at (3,1), was not, and its world position (3,1,0) is the
\* one of before it was panned.
C18_Witness ==
    /\ AfterUpdatePosOrtho /\ "update_resources" \notin ran
    /\ target["e2"] = Some(Window("w2"))
    /\ pos["e1"] = Some(<<1, 2>>) /\ posChRes["e1"] /\ cursor["w1"] = Some(<<1, 2>>)
    /\ pos["e2"] = Some(<<3, 1>>) /\ ~posChRes["e2"]
    /\ xf["e2"] = Some(Panned) /\ world["e2"] = Some(<<3, 1, 0>>)

\* The cameras update_pos found tracking window w.
TrackedOn(w) == {e \in Entities : IsSome(posBefore[e]) /\ target[e] = Some(Window(w))}

\* C19: after update_pos in a frame with at least one CursorMoved for window W, all
\* tracked cameras that render to W hold the same MousePos.
C19_SharedWindowSamePosition ==
    AfterUpdatePos =>
        \A w \in Windows :
            ReadFor(w) # {} => \A e, f \in TrackedOn(w) : pos[e] = pos[f]
\* Two tracked cameras of w1 were both moved by the notifications of this frame to
\* the position of the last one.
C19_Witness ==
    /\ AfterUpdatePos /\ TrackedOn("w1") = {"e1", "e2"}
    /\ Len(readEvents) = 2 /\ readEvents[2].id = "w1"
    /\ pos["e1"] = Some(readEvents[2].position) /\ pos["e2"] = pos["e1"]
    /\ posBefore["e1"] # pos["e1"] /\ posBefore["e2"] # pos["e2"]

\* C20: in every state the two InsertExt methods and the systems of the plugin can
\* reach, every entity that carries MousePosWorld carries MousePos.
C20_WorldImpliesScreen ==
    \A e \in Entities : IsSome(world[e]) => IsSome(pos[e])
\* At the end of a frame one camera carries both components, moved by the cursor,
\* and the other carries MousePos alone.
C20_Witness ==
    /\ FrameEnd
    /\ IsSome(world["e1"]) /\ IsSome(pos["e1"]) /\ Unwrap(pos["e1"]) # Vec2Zero
    /\ IsSome(pos["e2"]) /\ ~IsSome(world["e2"])

\* C21: at the end of every frame in which no entity carries MainCamera (the cached
\* main camera was despawned or lost the marker, and no other entity was given it),
\* the MainCameraStore is empty and the MousePos and MousePosWorld resources are
\* zero: they do not go on mirroring the camera that is no longer main.
C21_LostMainIsForgotten ==
    (FrameEnd /\ MarkerHolders = {}) =>
        (~IsSome(store) /\ resPos = Vec2Zero /\ resWorld = Vec3Zero)

====
